---- MODULE Spec2Model ----
(***************************************************************************)
(* Model of src/src/App.jsx: the mocked search (mockSearch), the CSV       *)
(* helpers (escapeCSVValue, toCSV, downloadCSV) and the App component's    *)
(* state (query, submittedQuery, the memoized result bundle) with its      *)
(* handlers (onChange, onSubmit, onReset, exportFilteredCSV, exportAllCSV) *)
(* and the deferred URL.revokeObjectURL timer.                             *)
(*                                                                         *)
(* A JavaScript string is a sequence of one-character strings.  A          *)
(* JavaScript value is a record [t, n, s]: its type tag, its number and    *)
(* its characters.  A JavaScript object is the sequence of its <<key,      *)
(* value>> pairs in Object.keys order.                                     *)
(***************************************************************************)
EXTENDS Integers, Sequences, FiniteSets, TLC

(***************************************************************************)
(* Bounds of the model.                                                    *)
(***************************************************************************)
\* Exports (downloadCSV calls) in one run.
MaxExports == 2
\* Rows handed to toCSV when it is checked as a function.
MaxRows == 2
\* Characters of a cell value handed to toCSV when it is checked as a function.
MaxCellLen == 2
\* Records of a record collection when the filter/sort is checked on fixtures.
MaxRecords == 3

(***************************************************************************)
(* Strings.                                                                *)
(***************************************************************************)
\* The characters of the model's alphabet that the JavaScript regular
\* expression class \s and String.prototype.trim treat as white space.
WhiteSpace == {" ", "\t", "\n", "\r"}

UpperCase == <<"A","B","C","D","E","F","G","H","I","J","K","L","M","N","O","P","Q","R","S","T","U","V","W","X","Y","Z">>
LowerCase == <<"a","b","c","d","e","f","g","h","i","j","k","l","m","n","o","p","q","r","s","t","u","v","w","x","y","z">>

\* String.prototype.toLowerCase, one character.
LowerChar(c) ==
  IF \E i \in 1..Len(UpperCase) : UpperCase[i] = c
  THEN LowerCase[CHOOSE i \in 1..Len(UpperCase) : UpperCase[i] = c]
  ELSE c

RECURSIVE toLowerCase(_)
toLowerCase(s) ==
  IF s = <<>> THEN <<>> ELSE <<LowerChar(Head(s))>> \o toLowerCase(Tail(s))

RECURSIVE trimStart(_)
trimStart(s) ==
  IF s # <<>> /\ Head(s) \in WhiteSpace THEN trimStart(Tail(s)) ELSE s

RECURSIVE trimEnd(_)
trimEnd(s) ==
  IF s # <<>> /\ s[Len(s)] \in WhiteSpace
  THEN trimEnd(SubSeq(s, 1, Len(s) - 1))
  ELSE s

\* trim left out: the string as it is.
trim_None(s) == s

\* String.prototype.trim
trim(s) == trimEnd(trimStart(s))

\* String.prototype.includes
includes(s, q) ==
  \E i \in 0..(Len(s) - Len(q)) : SubSeq(s, i + 1, i + Len(q)) = q

\* String(n) for a non-negative integer n.
RECURSIVE NumberToString(_)
NumberToString(n) ==
  LET digit == <<"0","1","2","3","4","5","6","7","8","9">>[(n % 10) + 1]
  IN IF n < 10 THEN <<digit>> ELSE NumberToString(n \div 10) \o <<digit>>

\* Array.prototype.join of an array of strings.
RECURSIVE join(_, _)
join(parts, sep) ==
  IF parts = <<>> THEN <<>>
  ELSE IF Len(parts) = 1 THEN parts[1]
  ELSE parts[1] \o sep \o join(Tail(parts), sep)

(***************************************************************************)
(* Values and objects.                                                     *)
(***************************************************************************)
Num(n) == [t |-> "number", n |-> n, s |-> <<>>]
Str(s) == [t |-> "string", n |-> 0, s |-> s]
Null == [t |-> "null", n |-> 0, s |-> <<>>]
Undefined == [t |-> "undefined", n |-> 0, s |-> <<>>]

\* Object.keys(obj)
ObjectKeys(obj) == [i \in 1..Len(obj) |-> obj[i][1]]

\* obj[key]: undefined when the key is absent.
Get(obj, key) ==
  IF \E i \in 1..Len(obj) : obj[i][1] = key
  THEN obj[CHOOSE i \in 1..Len(obj) : obj[i][1] = key][2]
  ELSE Undefined

\* String(value) for a value that is neither null nor undefined.
String(value) ==
  IF value.t = "number" THEN NumberToString(value.n) ELSE value.s

K_id == <<"i","d">>
K_name == <<"n","a","m","e">>
K_category == <<"c","a","t","e","g","o","r","y">>
K_score == <<"s","c","o","r","e">>

\* A record of the collection: { id, name, category, score }.
Rec(id, name, category, score) ==
  << <<K_id, Num(id)>>, <<K_name, Str(name)>>,
     <<K_category, Str(category)>>, <<K_score, Num(score)>> >>

MOCK_DATA ==
  <<
     Rec(1, <<"A","c","m","e"," ","A","n","a","l","y","t","i","c","s"," ","S","u","i","t","e">>,
         <<"A","n","a","l","y","t","i","c","s">>, 92),
     Rec(2, <<"B","e","a","c","o","n"," ","B","i","l","l","i","n","g">>,
         <<"F","i","n","T","e","c","h">>, 84),
     Rec(3, <<"C","i","n","d","e","r"," ","C","R","M">>,
         <<"S","a","l","e","s">>, 88),
     Rec(4, <<"D","e","l","t","a"," ","D","o","c","s">>,
         <<"D","o","c","s">>, 77),
     Rec(5, <<"E","c","h","o"," ","E","T","L">>,
         <<"D","a","t","a">>, 81),
     Rec(6, <<"F","l","u","x"," ","F","o","r","e","c","a","s","t">>,
         <<"A","n","a","l","y","t","i","c","s">>, 90),
     Rec(7, <<"G","l","i","n","t"," ","G","a","t","e","w","a","y">>,
         <<"F","i","n","T","e","c","h">>, 73),
     Rec(8, <<"H","e","l","i","o"," ","H","e","l","p","d","e","s","k">>,
         <<"S","u","p","p","o","r","t">>, 85),
     Rec(9, <<"I","o","t","a"," ","I","n","s","i","g","h","t","s">>,
         <<"A","n","a","l","y","t","i","c","s">>, 89),
     Rec(10, <<"J","o","l","t"," ","J","i","r","a"," ","S","y","n","c">>,
         <<"D","e","v","T","o","o","l","s">>, 80)
  >>

(***************************************************************************)
(* mockSearch.                                                             *)
(***************************************************************************)
\* The filter predicate with the category test left out.
matches_NameOnly(r, q) == includes(toLowerCase(Get(r, K_name).s), q)

\* The filter predicate: name or category contains q, case-insensitively.
matches(r, q) ==
  \/ includes(toLowerCase(Get(r, K_name).s), q)
  \/ includes(toLowerCase(Get(r, K_category).s), q)

\* Array.prototype.filter with the predicate of mockSearch: a new array.
RECURSIVE filter(_, _)
filter(arr, q) ==
  IF arr = <<>> THEN <<>>
  ELSE (IF matches(Head(arr), q) THEN <<Head(arr)>> ELSE <<>>)
       \o filter(Tail(arr), q)

\* The comparator handed to sort: (a, b) => b.score - a.score
compareFn(a, b) == Get(b, K_score).n - Get(a, K_score).n

\* An unstable sort: x goes before the elements it ties with.
RECURSIVE insertSorted_BeforeTies(_, _)
insertSorted_BeforeTies(sorted, x) ==
  IF sorted = <<>> THEN <<x>>
  ELSE IF compareFn(Head(sorted), x) < 0
       THEN <<Head(sorted)>> \o insertSorted_BeforeTies(Tail(sorted), x)
       ELSE <<x>> \o sorted

\* Array.prototype.sort is stable: x goes after every element that does not
\* compare greater than it.
RECURSIVE insertSorted(_, _)
insertSorted(sorted, x) ==
  IF sorted = <<>> THEN <<x>>
  ELSE IF compareFn(Head(sorted), x) <= 0
       THEN <<Head(sorted)>> \o insertSorted(Tail(sorted), x)
       ELSE <<x>> \o sorted

RECURSIVE sort(_)
sort(arr) ==
  IF arr = <<>> THEN <<>>
  ELSE insertSorted(sort(SubSeq(arr, 1, Len(arr) - 1)), arr[Len(arr)])

EmptyExplanation ==
  <<"T","y","p","e"," ","a"," ","q","u","e","r","y"," ","a","n","d"," ","p","r","e","s","s"," ","S","e","a","r","c","h","."," ","R","e","s","u","l","t","s"," ","a","r","e"," ","m","o","c","k","e","d"," ","f","o","r"," ","d","e","m","o",".">>

EmptyTips ==
  << <<"F","i","l","t","e","r","i","n","g"," ","m","a","t","c","h","e","s"," ","o","n"," ","n","a","m","e"," ","o","r"," ","c","a","t","e","g","o","r","y"," ","(","c","a","s","e","-","i","n","s","e","n","s","i","t","i","v","e",")",".">> >>

explanationOf(n, query) ==
  <<"S","h","o","w","i","n","g"," ">> \o NumberToString(n)
  \o <<" ","r","e","s","u","l","t","(","s",")"," ","f","o","r"," ","\"">> \o query
  \o <<"\"","."," ","T","h","i","s"," ","m","o","c","k","e","d"," ","s","e","a","r","c","h"," ","f","i","l","t","e","r","s"," ","b","y"," ","n","a","m","e","/","c","a","t","e","g","o","r","y"," ","a","n","d"," ","s","o","r","t","s"," ","b","y"," ","m","o","c","k","e","d"," ","\"","s","c","o","r","e","\""," ","(","d","e","s","c",")",".">>

tipsOf(query) ==
  << <<"F","i","l","t","e","r",":"," ","n","a","m","e","/","c","a","t","e","g","o","r","y"," ","c","o","n","t","a","i","n","s"," ","\"">> \o query
       \o <<"\""," ","(","c","a","s","e","-","i","n","s","e","n","s","i","t","i","v","e",")",".">>,
     <<"S","o","r","t",":"," ","s","c","o","r","e"," ","d","e","s","c","e","n","d","i","n","g",".">>,
     <<"T","o"," ","g","o"," ","r","e","a","l",","," ","r","e","p","l","a","c","e"," ","m","o","c","k","S","e","a","r","c","h","(",")"," ","w","i","t","h"," ","a","n"," ","A","P","I"," ","c","a","l","l",".">> >>

\* mockSearch with MOCK_DATA.sort(...) ahead of the filter: the collection
\* itself is sorted in place.
mockSearch_SortsSource(query, data) ==
  LET q == toLowerCase(trim(query))
  IN IF q = <<>>
     THEN [items |-> <<>>, explanation |-> EmptyExplanation,
           tips |-> EmptyTips, source |-> data]
     ELSE LET items == filter(sort(data), q)
          IN [items |-> items,
              explanation |-> explanationOf(Len(items), query),
              tips |-> tipsOf(query),
              source |-> sort(data)]

\* mockSearch(query) run on a record collection holding `data`.  filter
\* returns a new array and sort sorts that array in place, so the collection
\* itself is left as it was: `source` is its content after the call.
mockSearch(query, data) ==
  LET q == toLowerCase(trim(query))
  IN IF q = <<>>
     THEN [items |-> <<>>, explanation |-> EmptyExplanation,
           tips |-> EmptyTips, source |-> data]
     ELSE LET items == sort(filter(data, q))
          IN [items |-> items,
              explanation |-> explanationOf(Len(items), query),
              tips |-> tipsOf(query),
              source |-> data]

(***************************************************************************)
(* CSV helpers.                                                            *)
(***************************************************************************)
\* str.replace(/"/g, '""')
RECURSIVE doubleQuotes(_)
doubleQuotes(str) ==
  IF str = <<>> THEN <<>>
  ELSE (IF Head(str) = "\"" THEN <<"\"", "\"">> ELSE <<Head(str)>>)
       \o doubleQuotes(Tail(str))

\* The test without its last alternative, \s$.
needsQuotes_NoTrailing(str) ==
  \/ \E i \in 1..Len(str) : str[i] \in {"\"", ",", "\n", "\r"}
  \/ str # <<>> /\ str[1] \in WhiteSpace

\* /[",\n\r]|^\s|\s$/.test(str)
needsQuotes(str) ==
  \/ \E i \in 1..Len(str) : str[i] \in {"\"", ",", "\n", "\r"}
  \/ str # <<>> /\ str[1] \in WhiteSpace
  \/ str # <<>> /\ str[Len(str)] \in WhiteSpace

escapeCSVValue(value) ==
  IF value.t \in {"null", "undefined"} THEN <<>>
  ELSE LET str == String(value)
           escaped == doubleQuotes(str)
       IN IF needsQuotes(str) THEN <<"\"">> \o escaped \o <<"\"">> ELSE escaped

\* cols.map((c) => escapeCSVValue(r[c]))
RECURSIVE cells(_, _)
cells(r, cols) ==
  IF cols = <<>> THEN <<>>
  ELSE <<escapeCSVValue(Get(r, Head(cols)))>> \o cells(r, Tail(cols))

\* rows.map((r) => cols.map(...).join(","))
RECURSIVE lines(_, _)
lines(rows, cols) ==
  IF rows = <<>> THEN <<>>
  ELSE <<join(cells(Head(rows), cols), <<",">>)>> \o lines(Tail(rows), cols)

\* toCSV taking the first row's keys even when columns are given.
toCSV_KeysFirst(rows, columns) ==
  LET cols == IF Len(rows) > 0 THEN ObjectKeys(rows[1]) ELSE columns
      header == join(cols, <<",">>)
  IN join(<<header>> \o lines(rows, cols), <<"\r", "\n">>)

toCSV(rows, columns) ==
  LET cols == IF Len(columns) > 0 THEN columns
              ELSE IF Len(rows) > 0 THEN ObjectKeys(rows[1]) ELSE <<>>
      header == join(cols, <<",">>)
  IN join(<<header>> \o lines(rows, cols), <<"\r", "\n">>)

\* The character U+FEFF.
BOM == "BOM"

\* new Blob(["\uFEFF" + csv], { type: "text/csv;charset=utf-8" })
Blob(csv) == [text |-> <<BOM>> \o csv, type |-> "text/csv;charset=utf-8"]

(***************************************************************************)
(* The App component.                                                      *)
(***************************************************************************)
\* const columns = ["id", "name", "category", "score"]
columns == <<K_id, K_name, K_category, K_score>>

\* (n) => String(n).padStart(2, "0")
pad(n) ==
  LET s == NumberToString(n) IN IF Len(s) < 2 THEN <<"0">> \o s ELSE s

\* timestamp() for new Date() = d, a record of the local-time getters'
\* values (month as getMonth gives it, from 0).
timestamp(d) ==
  NumberToString(d.year) \o pad(d.month + 1) \o pad(d.date) \o <<"-">>
  \o pad(d.hours) \o pad(d.minutes) \o pad(d.seconds)

\* `results_${submittedQuery || "empty"}_${timestamp()}.csv`
filteredName(submitted, d) ==
  <<"r","e","s","u","l","t","s","_">> \o (IF submitted # <<>> THEN submitted ELSE <<"e","m","p","t","y">>)
  \o <<"_">> \o timestamp(d) \o <<".","c","s","v">>

\* `results_all_${timestamp()}.csv`
allName(d) ==
  <<"r","e","s","u","l","t","s","_","a","l","l","_">> \o timestamp(d) \o <<".","c","s","v">>

(***************************************************************************)
(* Inputs.                                                                 *)
(***************************************************************************)
\* The texts the user types into the input: empty, white space only,
\* matching records the sort reorders, padded and in mixed case and
\* matching on the category alone, matching in upper case, matching nothing,
\* and matching one record on both fields.
Queries ==
  { <<>>,
    <<" ">>,
    <<"\t"," ">>,
    <<"d","e">>,
    <<" ","A","n"," ">>,
    <<"F","I","N">>,
    <<"z","z">>,
    <<"d","o","c","s">> }

\* The values new Date() takes: 2025-09-25 02:15:30 and 2026-12-03 14:05:09.
Dates ==
  { [year |-> 2025, month |-> 8, date |-> 25,
     hours |-> 2, minutes |-> 15, seconds |-> 30],
    [year |-> 2026, month |-> 11, date |-> 3,
     hours |-> 14, minutes |-> 5, seconds |-> 9] }

\* All sequences over S of length at most n.
SeqsUpTo(S, n) == UNION { [1..k -> S] : k \in 0..n }

\* toCSV's inputs when it is checked as a function: column names and keys.
Col_k == <<"k">>
Col_z == <<"z">>
Col_comma == <<"n", ",", "m">>
Col_quote == <<"q", "\"">>
Col_space == <<" ", "k">>

CellAlphabet == {"a", "\"", ",", " ", "\n", "\r"}

CellValues ==
  {Null, Undefined, Num(7), Num(10)}
  \cup { Str(s) : s \in SeqsUpTo(CellAlphabet, MaxCellLen) }

StructRows ==
  { <<>>,
    << <<Col_k, Str(<<"a">>)>> >>,
    << <<Col_k, Num(7)>>, <<Col_comma, Str(<<"x", " ", "y">>)>> >>,
    << <<Col_comma, Null>>, <<Col_k, Str(<<"a", ",", "b">>)>> >>,
    << <<Col_k, Str(<<"\"", "q", "\"">>)>>, <<Col_z, Str(<<" ", "a">>)>> >> }

ColumnLists ==
  { <<>>, <<Col_k>>, <<Col_z>>, <<Col_comma, Col_k>>, <<Col_k, Col_comma>>,
    <<Col_quote>>, <<Col_space, Col_k>> }

\* <<rows, columns>>: one row of one cell over every cell value, and up to
\* MaxRows rows over every column list.
CsvInputs ==
  { << << << <<Col_k, v>> >> >>, c >> :
       v \in CellValues, c \in { <<>>, <<Col_k>>, <<Col_z>> } }
  \cup (SeqsUpTo(StructRows, MaxRows) \X ColumnLists)

\* Record collections other than MOCK_DATA, for the filter and the sort as
\* functions of the collection: ids 1..n in order, scores that tie.
FixtureScores == {80, 90}
FixtureNames == { <<"A", "n">>, <<"b">> }
FixtureRecord(i, c) == Rec(i, c[1], <<"c">>, c[2])
Fixtures ==
  { [i \in 1..Len(cs) |-> FixtureRecord(i, cs[i])] :
       cs \in SeqsUpTo(FixtureNames \X FixtureScores, MaxRecords) }

(***************************************************************************)
(* State.                                                                  *)
(***************************************************************************)
VARIABLES
  query,           \* useState: the text in the input
  submittedQuery,  \* useState: the text last submitted
  result,          \* useMemo: [items, explanation, tips] on display
  mockData,        \* the content of the MOCK_DATA array
  urls,            \* per object URL, the calls made on it, in order
  timers,          \* pending setTimeout callbacks, by the URL each revokes
  download,        \* what the last a.click() handed to the browser
  exportedBy,      \* the handler that made the last download
  csvRows,         \* toCSV as a function: its rows
  csvColumns,      \* toCSV as a function: its columns
  csvOut           \* toCSV as a function: [done, text]

vars == <<query, submittedQuery, result, mockData, urls, timers, download,
          exportedBy, csvRows, csvColumns, csvOut>>

uiVars == <<query, submittedQuery, result, mockData>>
exportVars == <<urls, timers, download, exportedBy>>
csvVars == <<csvRows, csvColumns, csvOut>>

NoDownload == [filename |-> <<>>, href |-> 0, blob |-> Blob(<<>>)]

bundle(r) == [items |-> r.items, explanation |-> r.explanation, tips |-> r.tips]

\* The state after the first render of App over a collection holding data.
InitApp(data) ==
  /\ query = <<>>
  /\ submittedQuery = <<>>
  /\ result = bundle(mockSearch(<<>>, data))
  /\ mockData = mockSearch(<<>>, data).source
  /\ urls = <<>>
  /\ timers = <<>>
  /\ download = NoDownload
  /\ exportedBy = "none"

CsvIdle ==
  /\ csvRows = <<>>
  /\ csvColumns = <<>>
  /\ csvOut = [done |-> FALSE, text |-> <<>>]

Init == InitApp(MOCK_DATA) /\ CsvIdle

(***************************************************************************)
(* Handlers.                                                               *)
(***************************************************************************)
\* useMemo with an empty dependency list: the first bundle is kept.
Rerender_Stale(next) == UNCHANGED <<result, mockData>>

\* The render after setSubmittedQuery(next): useMemo runs mockSearch again
\* only when its dependency submittedQuery changed.
Rerender(next) ==
  IF next = submittedQuery
  THEN UNCHANGED <<result, mockData>>
  ELSE LET r == mockSearch(next, mockData)
       IN /\ result' = bundle(r)
          /\ mockData' = r.source

\* onChange={(e) => setQuery(e.target.value)}
OnChange(value) ==
  /\ query' = value
  /\ UNCHANGED <<submittedQuery, result, mockData>>
  /\ UNCHANGED <<exportVars, csvVars>>

onSubmit ==
  /\ submittedQuery' = query
  /\ Rerender(query)
  /\ UNCHANGED <<query, exportVars, csvVars>>

onReset ==
  /\ query' = <<>>
  /\ submittedQuery' = <<>>
  /\ Rerender(<<>>)
  /\ UNCHANGED <<exportVars, csvVars>>

\* downloadCSV revoking the URL itself, right after the click.
downloadCSV_RevokeNow(filename, rows, cols) ==
  LET csv == toCSV(rows, cols)
      url == Len(urls) + 1
  IN /\ urls' = Append(urls, <<"createObjectURL", "click", "revokeObjectURL">>)
     /\ download' = [filename |-> filename, href |-> url, blob |-> Blob(csv)]
     /\ timers' = timers

\* downloadCSV up to its return: the URL is created, set on the anchor and
\* clicked, and its release is left to a timer.
downloadCSV(filename, rows, cols) ==
  LET csv == toCSV(rows, cols)
      url == Len(urls) + 1
  IN /\ urls' = Append(urls, <<"createObjectURL", "click">>)
     /\ download' = [filename |-> filename, href |-> url, blob |-> Blob(csv)]
     /\ timers' = Append(timers, url)

exportFilteredCSV(d) ==
  /\ Len(urls) < MaxExports
  /\ downloadCSV(filteredName(submittedQuery, d), result.items, columns)
  /\ exportedBy' = "exportFilteredCSV"
  /\ UNCHANGED <<uiVars, csvVars>>

exportAllCSV(d) ==
  /\ Len(urls) < MaxExports
  /\ downloadCSV(allName(d), mockData, columns)
  /\ exportedBy' = "exportAllCSV"
  /\ UNCHANGED <<uiVars, csvVars>>

\* () => URL.revokeObjectURL(url), the oldest pending timer first (all have
\* the same delay).
RevokeTimer ==
  /\ timers # <<>>
  /\ urls' = [urls EXCEPT ![Head(timers)] = Append(@, "revokeObjectURL")]
  /\ timers' = Tail(timers)
  /\ UNCHANGED <<uiVars, download, exportedBy, csvVars>>

Next ==
  \/ \E value \in Queries : OnChange(value)
  \/ onSubmit
  \/ onReset
  \/ \E d \in Dates : exportFilteredCSV(d)
  \/ \E d \in Dates : exportAllCSV(d)
  \/ RevokeTimer

Spec == Init /\ [][Next]_vars

\* The event loop runs every timer callback that is due.
LiveSpec == Spec /\ WF_vars(RevokeTimer)

(***************************************************************************)
(* toCSV as a function of its arguments.                                   *)
(***************************************************************************)
InitCsv ==
  /\ InitApp(MOCK_DATA)
  /\ \E input \in CsvInputs : csvRows = input[1] /\ csvColumns = input[2]
  /\ csvOut = [done |-> FALSE, text |-> <<>>]

CallToCSV ==
  /\ ~csvOut.done
  /\ csvOut' = [done |-> TRUE, text |-> toCSV(csvRows, csvColumns)]
  /\ UNCHANGED <<uiVars, exportVars, csvRows, csvColumns>>

NextCsv == CallToCSV

SpecCsv == InitCsv /\ [][NextCsv]_vars

(***************************************************************************)
(* mockSearch as a function of the record collection.                      *)
(***************************************************************************)
InitFixture == (\E data \in Fixtures \cup {MOCK_DATA} : InitApp(data)) /\ CsvIdle

NextSearch ==
  \/ \E value \in Queries : OnChange(value)
  \/ onSubmit
  \/ onReset

SpecSearch == InitFixture /\ [][NextSearch]_vars

(***************************************************************************)
(* Properties.                                                             *)
(***************************************************************************)
\* A string that is empty or white space only.
AllWhite(s) == \A i \in 1..Len(s) : s[i] \in WhiteSpace

\* The normalized query: trimmed and lowercased.
Normalized(s) == toLowerCase(trim(s))

Score(r) == Get(r, K_score).n

\* Where a record stands in the record collection (ids are unique).
Position(r, data) == CHOOSE k \in 1..Len(data) : data[k] = r

\* C1: for a submitted query whose normalized form is non-empty, the items
\* on display are exactly the records of the fixed collection whose
\* lowercased name or category contains the normalized query: each matching
\* record once, no other record, nothing from outside the collection.
C1_ItemsAreExactlyTheMatches ==
  LET q == Normalized(submittedQuery)
      hit(r) == \E f \in {K_name, K_category} :
                  includes(toLowerCase(Get(r, f).s), q)
  IN q # <<>> =>
       /\ \A i \in 1..Len(MOCK_DATA) :
            Cardinality({ j \in 1..Len(result.items) :
                            result.items[j] = MOCK_DATA[i] })
              = (IF hit(MOCK_DATA[i]) THEN 1 ELSE 0)
       /\ \A j \in 1..Len(result.items) :
            \E i \in 1..Len(MOCK_DATA) : result.items[j] = MOCK_DATA[i]

\* A padded, mixed-case query (" An ") is on display with some but not all
\* records, one of them matching on its category alone.
C1_Witness ==
  /\ Normalized(submittedQuery) # <<>>
  /\ Normalized(submittedQuery) # submittedQuery
  /\ Len(result.items) > 1
  /\ Len(result.items) < Len(MOCK_DATA)
  /\ \E j \in 1..Len(result.items) :
       ~includes(toLowerCase(Get(result.items[j], K_name).s),
                 Normalized(submittedQuery))

\* C2: for a non-empty normalized query the items are in descending score
\* order, and items of equal score stand in the order they have in the
\* record collection.
C2_SortedByScoreStable ==
  Normalized(submittedQuery) # <<>> =>
    /\ \A j \in 1..(Len(result.items) - 1) :
         Score(result.items[j]) >= Score(result.items[j + 1])
    /\ \A i, j \in 1..Len(result.items) :
         (i < j /\ Score(result.items[i]) = Score(result.items[j]))
           => Position(result.items[i], mockData)
                < Position(result.items[j], mockData)

\* Three items on display, two of them tied, and the sort moved a record
\* ahead of one that precedes it in the collection.
C2_Witness ==
  /\ Normalized(submittedQuery) # <<>>
  /\ Len(result.items) = 3
  /\ \E i \in 1..2 : Score(result.items[i]) = Score(result.items[i + 1])
  /\ \E i \in 1..2 : Position(result.items[i], mockData)
                        > Position(result.items[i + 1], mockData)

\* C3: a submitted query that is empty or all white space shows no items,
\* the fixed instructional explanation and one tip; any other query shows
\* three tips, whatever the record collection holds.
C3_EmptyQueryBranch ==
  /\ AllWhite(submittedQuery) =>
       /\ result.items = <<>>
       /\ result.explanation =
            <<"T","y","p","e"," ","a"," ","q","u","e","r","y"," ","a","n","d"," ","p","r","e","s","s"," ","S","e","a","r","c","h","."," ","R","e","s","u","l","t","s"," ","a","r","e"," ","m","o","c","k","e","d"," ","f","o","r"," ","d","e","m","o",".">>
       /\ Len(result.tips) = 1
  /\ ~AllWhite(submittedQuery) => Len(result.tips) = 3

\* A white-space-only query is submitted over a collection with records.
C3_Witness ==
  /\ submittedQuery # <<>>
  /\ AllWhite(submittedQuery)
  /\ mockData # <<>>
  /\ result.items = <<>>
  /\ Len(result.tips) = 1

\* A query matching nothing is on the general path: no items, three tips.
C3_WitnessNoMatch ==
  /\ ~AllWhite(submittedQuery)
  /\ result.items = <<>>
  /\ Len(result.tips) = 3

\* The columns toCSV works with.
ResolvedColumns ==
  IF csvColumns # <<>> THEN csvColumns
  ELSE IF csvRows # <<>> THEN ObjectKeys(csvRows[1]) ELSE <<>>

CRLF == <<"\r", "\n">>

\* A call of toCSV with one row and one column whose name needs no quoting:
\* the output is the name, CRLF, and the one field.
SingleCell ==
  /\ csvOut.done
  /\ Len(csvRows) = 1
  /\ Len(ResolvedColumns) = 1
  /\ \A i \in 1..Len(ResolvedColumns[1]) : ResolvedColumns[1][i] = "k"
                                            \/ ResolvedColumns[1][i] = "z"

TheCell == Get(csvRows[1], ResolvedColumns[1])

TheField ==
  SubSeq(csvOut.text, Len(ResolvedColumns[1]) + 3, Len(csvOut.text))

\* Reading doubled quotes back: <<"!">> when a quote stands alone.
RECURSIVE Undouble(_)
Undouble(s) ==
  IF s = <<>> THEN <<>>
  ELSE IF Head(s) # "\"" THEN
         (LET rest == Undouble(Tail(s))
          IN IF rest = <<"!">> THEN rest ELSE <<Head(s)>> \o rest)
  ELSE IF Len(s) >= 2 /\ s[2] = "\"" THEN
         (LET rest == Undouble(Tail(Tail(s)))
          IN IF rest = <<"!">> THEN rest ELSE <<"\"">> \o rest)
  ELSE <<"!">>

\* C4: the field toCSV emits for a cell is wrapped in double quotes exactly
\* when the cell's string form holds a double quote, a comma, CR or LF, or
\* starts or ends with white space; its double quotes are doubled either
\* way; null, undefined and an absent key give the empty field.
C4_FieldQuotedIffNeeded ==
  SingleCell =>
    IF TheCell.t \in {"null", "undefined"}
    THEN csvOut.text = ResolvedColumns[1] \o CRLF
    ELSE LET str == IF TheCell.t = "number"
                    THEN NumberToString(TheCell.n) ELSE TheCell.s
             special ==
               \/ \E i \in 1..Len(str) : str[i] \in {"\"", ",", "\r", "\n"}
               \/ str # <<>> /\ str[1] \in WhiteSpace
               \/ str # <<>> /\ str[Len(str)] \in WhiteSpace
             quoted == /\ Len(TheField) >= 2
                       /\ TheField[1] = "\""
                       /\ TheField[Len(TheField)] = "\""
                       /\ Undouble(SubSeq(TheField, 2, Len(TheField) - 1)) = str
         IN /\ SubSeq(csvOut.text, 1, Len(ResolvedColumns[1]) + 2)
                 = ResolvedColumns[1] \o CRLF
            /\ special => quoted
            /\ ~special => TheField = str

\* A cell holding a double quote and ending in white space was emitted.
C4_Witness ==
  /\ SingleCell
  /\ TheCell.t = "string"
  /\ Len(TheCell.s) = 2
  /\ TheCell.s[1] = "\""
  /\ TheCell.s[2] = " "
  /\ TheField = <<"\"", "\"", "\"", " ", "\"">>

\* A cell whose key the row lacks was emitted as the empty field.
C4_WitnessAbsent ==
  /\ SingleCell
  /\ csvColumns = <<Col_z>>
  /\ csvOut.text = Col_z \o CRLF

RECURSIVE EscapedNames(_)
EscapedNames(cols) ==
  IF cols = <<>> THEN <<>>
  ELSE <<escapeCSVValue(Str(Head(cols)))>> \o EscapedNames(Tail(cols))

\* C5: the header line holds every column name escaped as a data value is:
\* a name with a double quote, comma, CR, LF or white space at an end is
\* quoted with its quotes doubled.
C5_HeaderEscaped ==
  csvOut.done =>
    LET header == join(EscapedNames(ResolvedColumns), <<",">>)
    IN IF csvRows = <<>>
       THEN csvOut.text = header
       ELSE /\ Len(csvOut.text) >= Len(header) + 2
            /\ SubSeq(csvOut.text, 1, Len(header) + 2) = header \o CRLF

\* The name segment the filtered export is to use for a submitted query.
Segment(q) == IF AllWhite(q) THEN <<"e","m","p","t","y">> ELSE q

\* C6: every filtered export names its file results_<segment>_<timestamp>.csv
\* with the placeholder as segment when the submitted query is empty or all
\* white space, and the query otherwise.
C6_FilenameSegmentNeverBlank ==
  [][(Len(urls') > Len(urls) /\ exportedBy' = "exportFilteredCSV") =>
       \E d \in Dates :
         download'.filename =
           <<"r","e","s","u","l","t","s","_">> \o Segment(submittedQuery) \o <<"_">>
           \o timestamp(d) \o <<".","c","s","v">>]_vars

Revoked(log) == \E i \in 1..Len(log) : log[i] = "revokeObjectURL"
Clicked(log) == \E i \in 1..Len(log) : log[i] = "click"

\* No URL is revoked before it was clicked, and none twice.
UrlsInOrder ==
  \A u \in 1..Len(urls) :
    /\ Cardinality({ i \in 1..Len(urls[u]) :
                      urls[u][i] = "revokeObjectURL" }) <= 1
    /\ \A i \in 1..Len(urls[u]) :
         urls[u][i] = "revokeObjectURL" =>
           \E j \in 1..(i - 1) : urls[u][j] = "click"

\* Each pending cleanup holds a URL of its own, not yet revoked.
TimersOwnUrls ==
  /\ \A i \in 1..Len(timers) :
       timers[i] \in 1..Len(urls) /\ ~Revoked(urls[timers[i]])
  /\ \A i, j \in 1..Len(timers) : timers[i] = timers[j] => i = j

\* A step that revokes a URL is a timer's, taken after the export that
\* clicked the URL returned, and it revokes the timer's own URL only.
RevokeIsDeferred ==
  \A u \in 1..Len(urls') :
    (Revoked(urls'[u]) /\ (u > Len(urls) \/ ~Revoked(urls[u]))) =>
      /\ u <= Len(urls)
      /\ Clicked(urls[u])
      /\ timers # <<>>
      /\ u = Head(timers)

\* C7: the URL an export creates is not revoked before it was clicked (the
\* revoking step is a later timer step), is revoked in the end, once, and
\* by its own export's timer.
C7_UrlReleasedOnceAfterClick ==
  /\ [](UrlsInOrder /\ TimersOwnUrls)
  /\ [][RevokeIsDeferred]_vars
  /\ \A u \in 1..MaxExports :
       (Len(urls) >= u) ~> (Len(urls) >= u /\ Revoked(urls[u]))

\* The first export's URL is released while a later export's is pending.
C7_Witness ==
  /\ Len(urls) >= 2
  /\ urls[1] = <<"createObjectURL", "click", "revokeObjectURL">>
  /\ urls[2] = <<"createObjectURL", "click">>
  /\ timers = <<2>>

RECURSIVE ExpectedLine(_, _)
ExpectedLine(r, cols) ==
  IF cols = <<>> THEN <<>>
  ELSE escapeCSVValue(Get(r, Head(cols)))
       \o (IF Len(cols) > 1 THEN <<",">> ELSE <<>>)
       \o ExpectedLine(r, Tail(cols))

RECURSIVE ExpectedHeader(_)
ExpectedHeader(cols) ==
  IF cols = <<>> THEN <<>>
  ELSE Head(cols) \o (IF Len(cols) > 1 THEN <<",">> ELSE <<>>)
       \o ExpectedHeader(Tail(cols))

RECURSIVE ExpectedRows(_, _)
ExpectedRows(rows, cols) ==
  IF rows = <<>> THEN <<>>
  ELSE CRLF \o ExpectedLine(Head(rows), cols) \o ExpectedRows(Tail(rows), cols)

\* C8: toCSV lists the given columns in their order when there are any, else
\* the first row's keys in their order, else nothing; its output is the
\* header and one line per row, each in that order, joined by CRLF; and
\* toCSV([], []) is the empty string.
C8_ColumnsResolvedAndLinesJoined ==
  csvOut.done =>
    /\ csvOut.text = ExpectedHeader(ResolvedColumns)
                       \o ExpectedRows(csvRows, ResolvedColumns)
    /\ (csvRows = <<>> /\ csvColumns = <<>>) => csvOut.text = <<>>

\* No columns given, two rows, the first with two keys: the keys are the
\* columns.
C8_Witness ==
  /\ csvOut.done
  /\ csvColumns = <<>>
  /\ Len(csvRows) = 2
  /\ Len(csvRows[1]) = 2
  /\ ObjectKeys(csvRows[1]) # ObjectKeys(csvRows[2])
  /\ Len(csvOut.text) > 0

\* toCSV([], []) returned.
C8_WitnessEmpty ==
  /\ csvOut.done
  /\ csvRows = <<>>
  /\ csvColumns = <<>>

\* C9: the record collection keeps its records, their values and their
\* order through every search, submit, reset and export, and an export of
\* all records writes them in that order.
C9_CollectionUnchanged ==
  /\ mockData = MOCK_DATA
  /\ exportedBy = "exportAllCSV" =>
       download.blob.text = <<BOM>> \o toCSV(MOCK_DATA, columns)

\* A search put a later record first, and all records were exported after.
C9_Witness ==
  /\ \E j \in 1..(Len(result.items) - 1) :
       Position(result.items[j], MOCK_DATA)
         > Position(result.items[j + 1], MOCK_DATA)
  /\ exportedBy = "exportAllCSV"

\* What a step that changes the input or the submitted query may do.
StepsKeepDisplay ==
  /\ query' # query =>
       \/ /\ submittedQuery' = submittedQuery
          /\ result' = result
       \/ /\ query' = <<>>
          /\ submittedQuery' = <<>>
  /\ submittedQuery' # submittedQuery =>
       \/ /\ submittedQuery' = query
          /\ query' = query
       \/ /\ query' = <<>>
          /\ submittedQuery' = <<>>
  /\ (Len(urls') > Len(urls) /\ exportedBy' = "exportFilteredCSV") =>
       /\ download'.blob.text = <<BOM>> \o toCSV(result.items, columns)
       /\ result' = result

\* C10: the bundle on display is the search of the submitted query, not of
\* the typed text; typing changes the input text only, submit copies it to
\* the submitted query, reset empties both, and a filtered export writes the
\* items on display.
C10_DisplayFollowsSubmittedQuery ==
  /\ [](result = bundle(mockSearch(submittedQuery, MOCK_DATA)))
  /\ [][StepsKeepDisplay]_vars

\* The typed text matches nothing while the items of the query submitted
\* before are on display and were exported.
C10_Witness ==
  /\ query # submittedQuery
  /\ result.items # <<>>
  /\ mockSearch(query, MOCK_DATA).items = <<>>
  /\ ~AllWhite(query)
  /\ exportedBy = "exportFilteredCSV"
  /\ download.blob.text = <<BOM>> \o toCSV(result.items, columns)
====
